---------------------------- MODULE Spec2Model ----------------------------
(***************************************************************************)
(* binance.subscribe.stream.Stream: one websocket connection kept alive by *)
(* a background connection task (aioretry's @retry around Stream._connect),*)
(* send() callers correlated with response frames by message id, and       *)
(* close(); and binance.subscribe.processors.ProcessorBase, which hands a   *)
(* payload to the handlers registered with it.                             *)
(*                                                                         *)
(* The program is a set of asyncio tasks on one event loop: every action   *)
(* below is the run of one task from the point where it is resumed to its  *)
(* next await, which is atomic on a single-threaded loop.                  *)
(*                                                                         *)
(* asyncio.CancelledError derives from BaseException (Python 3.8 and       *)
(* later): `except Exception` does not catch it, neither in this class nor *)
(* in aioretry.                                                            *)
(***************************************************************************)
EXTENDS Integers, FiniteSets, Sequences, TLC

\* ------------------------------------------------------------------ bounds
MaxCallers   == 2      \* send() calls issued over a behaviour
MaxConnTasks == 2      \* connect() calls issued over a behaviour
MaxSockets   == 2      \* connection attempts that succeed over a behaviour
MaxFails     == 1      \* retries after which the retry policy stops at the latest
MaxHandlers  == 3      \* handlers registered with a processor

Callers   == 1..MaxCallers
ConnTasks == 1..MaxConnTasks
SocketIds == 1..MaxSockets
FutureIds == 1..(MaxCallers + 1)
MsgIds    == 0..(MaxCallers - 1)
HandlerIds == 1..MaxHandlers

None == 0              \* Python's None, for the fields that hold a handle
NoId == -1             \* a caller that has not been given a message id

\* Payloads of a response frame: msg['result'], or msg['error'] (code, msg)
Payloads == {"null", "data"}
ErrorPayloads == {"data"}

\* Inbound text frames, after json.loads, by the keys _handle_message looks at
\*   result : {"id": i, "result": v}
\*   error  : {"id": i, "error": {"code": .., "msg": ..}}
\*   bare   : {"id": i} with neither key
\*   event  : no "id" key
\*   invalid: not JSON
Frames ==
    [kind : {"result"}, id : MsgIds, val : Payloads]
    \cup [kind : {"error"}, id : MsgIds, val : ErrorPayloads]
    \cup [kind : {"bare"}, id : MsgIds, val : {"null"}]
    \cup [kind : {"event", "invalid"}, id : {NoId}, val : {"null"}]

VARIABLES
    socket,           \* self._socket: None or a socket
    conn_task,        \* self._conn_task: None or a connection task
    connected_task,   \* self._connected_task: "None", or the state of that task
    message_id,       \* self._message_id
    message_futures,  \* keys of self._message_futures
    open_future,      \* self._open_future: None or a future
    closing,          \* self._closing
    sock_state,       \* each socket: "unopened", "open" or "closed"
    tasks,            \* each connection task: where it is suspended
    orphans,          \* on_connected tasks still running that no field refers to
    callers,          \* each send() call: where it is suspended, or its outcome
    closer,           \* the close() call in progress, and the outcome of the last
                      \* one since connect()
    close_tasks,      \* sockets with a socket.close(code) task still to run
    reentered,        \* connect() was called while a connection task was alive
                      \* or a close() in progress (history)
    handlers,         \* ProcessorBase._handlers: each handler, registered or not
    coro,             \* each handler's receive(payload) in the dispatch call
    dispatch          \* the dispatch call: where it is suspended, or its outcome

\* The fields of the Stream and the tasks around it; those of the processor
svars == <<socket, conn_task, connected_task, message_id, message_futures,
           open_future, closing, sock_state, tasks, orphans, callers, closer,
           close_tasks, reentered>>
dvars == <<handlers, coro, dispatch>>

vars == <<svars, dvars>>

\* ------------------------------------------------------------- task states
\* Where a connection task is suspended (its await), or how it ended
\*   connecting : connect(self._uri).__aenter__
\*   recv       : asyncio.wait_for(self._socket.recv(), timeout)
\*   ping       : self._socket.ping(), the ping frame written
\*   emit       : self._emit(ON_MESSAGE, msg)
\*   sleep      : aioretry's asyncio.sleep(delay) before the next attempt
\*   done / failed / cancelled : returned, raised, cancelled
ConnLive     == {"connecting", "recv", "ping", "emit", "sleep"}
InLoop       == {"recv", "ping", "emit"}     \* the awaits of the receive loop
ConnFinished == {"done", "failed", "cancelled"}

NoTask == [pc |-> "none", fails |-> 0, must_cancel |-> FALSE, sock |-> None, rsock |-> None]

\* Where a send() call is suspended, or how it ended
\*   waitOpen : `await self._open_future`, the future not resolved
\*   woken    : the awaited open future has a result, the call is to resume
\*   waitResp : `await future`
\*   returned / SubscribeError / NotConnected / ConnectionClosed : outcomes
CallerSuspended == {"waitOpen", "woken", "waitResp"}
CallerFinished  == {"returned", "SubscribeError", "NotConnected", "ConnectionClosed"}

NoCall == [pc |-> "idle", gate |-> None, sock |-> None, id |-> NoId,
           frame |-> NoId, val |-> "null"]

\* A handler by what dispatch looks at and by what its receive does:
\* whether handler.receive is a coroutine function, whether it raises
HandlerKinds == {"sync", "sync raises", "async", "async raises"}
IsCoroutine(k) == k \in {"async", "async raises"}
Raises(k) == k \in {"sync raises", "async raises"}

TypeOK ==
    /\ socket \in {None} \cup SocketIds
    /\ conn_task \in {None} \cup ConnTasks
    /\ connected_task \in {"None", "running", "done", "cancelled"}
    /\ message_id \in 0..MaxCallers
    /\ message_futures \subseteq MsgIds
    /\ open_future \in {None} \cup FutureIds
    /\ closing \in BOOLEAN
    /\ sock_state \in [SocketIds -> {"unopened", "open", "closed"}]
    /\ \A t \in ConnTasks :
          /\ tasks[t].pc \in {"none"} \cup ConnLive \cup ConnFinished
          /\ tasks[t].fails \in 0..(MaxFails + 1)
          /\ tasks[t].must_cancel \in BOOLEAN
          /\ tasks[t].sock \in {None} \cup SocketIds
          /\ tasks[t].rsock \in {None} \cup SocketIds
    /\ orphans \in 0..MaxSockets
    /\ \A c \in Callers :
          /\ callers[c].pc \in {"idle"} \cup CallerSuspended \cup CallerFinished
          /\ callers[c].gate \in {None} \cup FutureIds
          /\ callers[c].sock \in {None} \cup SocketIds
          /\ callers[c].id \in {NoId} \cup MsgIds
          /\ callers[c].frame \in {NoId} \cup MsgIds
          /\ callers[c].val \in Payloads
    /\ closer.pc \in {"idle", "awaiting"}
    /\ closer.target \in {None} \cup ConnTasks
    /\ closer.sock \in {None} \cup SocketIds
    /\ closer.result \in {"none", "returned", "NotConnected", "CancelledError"}
    /\ close_tasks \subseteq SocketIds
    /\ reentered \in BOOLEAN
    /\ handlers \in [HandlerIds -> {"none"} \cup HandlerKinds]
    /\ coro \in [HandlerIds -> {"idle", "created", "running", "done", "failed"}]
    /\ dispatch \in {"idle", "gather", "returned", "raised"}

\* Stream.__init__, ProcessorBase.__init__
Init ==
    /\ socket = None
    /\ conn_task = None
    /\ connected_task = "None"
    /\ message_id = 0
    /\ message_futures = {}
    /\ open_future = None
    /\ closing = FALSE
    /\ sock_state = [s \in SocketIds |-> "unopened"]
    /\ tasks = [t \in ConnTasks |-> NoTask]
    /\ orphans = 0
    /\ callers = [c \in Callers |-> NoCall]
    /\ closer = [pc |-> "idle", target |-> None, sock |-> None, result |-> "none"]
    /\ close_tasks = {}
    /\ reentered = FALSE
    /\ handlers = [h \in HandlerIds |-> "none"]
    /\ coro = [h \in HandlerIds |-> "idle"]
    /\ dispatch = "idle"


\* ------------------------------------------------------- pure operations
\* create_future(): a future no suspended caller refers to
NewFuture(cs) ==
    CHOOSE f \in FutureIds :
        /\ \A c \in Callers : ~(cs[c].pc = "waitOpen" /\ cs[c].gate = f)
        /\ \A g \in FutureIds :
              (\A c \in Callers : ~(cs[c].pc = "waitOpen" /\ cs[c].gate = g)) => f <= g

\* Stream._set_socket, its effect on the callers awaiting self._open_future:
\* set_result(socket) makes each of them ready to resume with that socket
SetSocketCallers(cs, of, s) ==
    [c \in Callers |->
        IF of # None /\ cs[c].pc = "waitOpen" /\ cs[c].gate = of
        THEN [cs[c] EXCEPT !.pc = "woken", !.gate = None, !.sock = s]
        ELSE cs[c]]

\* connect(...).__aexit__: the socket of the `async with` block is closed
Aexit(ss, s) == IF s = None THEN ss ELSE [ss EXCEPT ![s] = "closed"]

\* The retry policy (an injected strategy): what it may answer for `fails`
\* failures. It may stop at any failure and stops after MaxFails retries.
RetryPolicy(fails) == IF fails > MaxFails THEN {"abandon"} ELSE {"abandon", "retry"}

\* The state a step of a connection task leaves: its own record and the
\* fields it may have written
Outcome(tk, ss, of, ct) == [task |-> tk, ss |-> ss, of |-> of, ct |-> ct]

\* A connection task that has ended: nothing of it matters any more but how
\* it ended and, when it raised, the failure count the policy stopped at
Finished(tk, how) ==
    [tk EXCEPT !.pc = how, !.fails = IF how = "failed" THEN tk.fails ELSE 0,
               !.must_cancel = FALSE, !.sock = None, !.rsock = None]

\* Stream._reconnect(exception, fails), aioretry's before_retry, then
\* aioretry's sleep. A connected task still running is cancelled and awaited:
\* it ends cancelled, the await raises CancelledError, which `except
\* Exception` lets through, and the connection task ends cancelled. So does
\* the await of a connected task that an earlier _reconnect left cancelled.
Reconnect(tk, ss, of, ct, cs) ==
    IF ct \in {"running", "cancelled"}
    THEN Outcome(Finished(tk, "cancelled"), ss, of, "cancelled")
    ELSE Outcome([tk EXCEPT !.pc = "sleep"], ss, NewFuture(cs), "None")

\* An Exception leaves Stream._connect: the `async with` block closes its
\* socket, aioretry counts the failure and asks the policy
Fail(tk, ss, of, ct, cs) ==
    LET ss2 == Aexit(ss, tk.sock)
        tk2 == [tk EXCEPT !.fails = tk.fails + 1, !.sock = None, !.rsock = None]
    IN  {Outcome(Finished(tk2, "failed"), ss2, of, ct) :
            d \in {x \in RetryPolicy(tk2.fails) : x = "abandon"}}
        \cup
        {Reconnect(tk2, ss2, of, ct, cs) :
            d \in {x \in RetryPolicy(tk2.fails) : x = "retry"}}

\* Stream._connect returns: the `async with` block closes its socket
Return(tk, ss, of, ct) == Outcome(Finished(tk, "done"), Aexit(ss, tk.sock), of, ct)

\* `while not self._closing: await self._receive()`: the head of the loop and
\* the call of self._socket.recv(). `sk` is self._socket and `busy` the
\* sockets another task is already receiving on (recv is not reentrant)
LoopHead(tk, cl, sk, busy, ss, of, ct, cs) ==
    IF cl THEN {Return(tk, ss, of, ct)}
    ELSE IF sk = None \/ sk \in busy THEN Fail(tk, ss, of, ct, cs)
    ELSE {Outcome([tk EXCEPT !.pc = "recv", !.rsock = sk], ss, of, ct)}

\* ConnectionClosed or CancelledError caught in Stream._connect
Caught(tk, cl, ss, of, ct, cs, cancelled) ==
    IF cl THEN {Return(tk, ss, of, ct)}
    ELSE IF cancelled THEN {Outcome(Finished(tk, "cancelled"), Aexit(ss, tk.sock), of, ct)}
    ELSE Fail(tk, ss, of, ct, cs)

\* FutureOf with the key ignored: any future still awaited
FutureOfAnyKey(cs, id) == {c \in Callers : cs[c].pc = "waitResp"}

\* The caller whose future is stored under a key of self._message_futures
FutureOf(cs, id) == {c \in Callers : cs[c].id = id /\ cs[c].pc = "waitResp"}

\* Forwarded with the lookup in the table left out: every frame is forwarded
ForwardedAlways(futs, f) == TRUE

\* Stream._handle_message: whether the frame goes to on_message
Forwarded(futs, f) == f.kind = "event" \/ f.id \notin futs

\* HandleCallers with a frame that has neither key taken for a result
HandleCallersBareResolves(cs, f) ==
    [c \in Callers |->
        IF c \in FutureOf(cs, f.id)
        THEN [cs[c] EXCEPT !.pc = IF f.kind = "error" THEN "SubscribeError" ELSE "returned",
                           !.frame = f.id, !.val = f.val]
        ELSE cs[c]]

\* Stream._handle_message on a correlated frame: set_result / set_exception
HandleCallers(cs, f) ==
    [c \in Callers |->
        IF c \in FutureOf(cs, f.id) /\ f.kind \in {"result", "error"}
        THEN [cs[c] EXCEPT !.pc = IF f.kind = "result" THEN "returned" ELSE "SubscribeError",
                           !.frame = f.id, !.val = f.val]
        ELSE cs[c]]

\* HandleFutures that empties the table instead of deleting one key
HandleFuturesClear(futs, f) == {}

\* Stream._handle_message on a correlated frame: del self._message_futures[id]
HandleFutures(futs, f) == futs \ {f.id}

\* The sockets some connection task other than t is receiving on
Busy(t) == {tasks[u].rsock : u \in {v \in ConnTasks \ {t} : tasks[v].pc = "recv"}}

\* A step of connection task t ends in outcome r
Leave(t, r) ==
    /\ tasks' = [tasks EXCEPT ![t] = r.task]
    /\ sock_state' = r.ss
    /\ open_future' = r.of
    /\ connected_task' = r.ct

\* Task t is suspended at `pc` and no cancellation is pending on it
Runnable(t, pc) == tasks[t].pc = pc /\ ~tasks[t].must_cancel


\* ------------------------------------------------------------ connect()
\* Stream.connect: _before_connect, then create_task(self._connect()).
\* closer.result and reentered are history: they record, they do not decide.
Connect(t) ==
    /\ tasks[t].pc = "none"
    /\ \A u \in ConnTasks : u < t => tasks[u].pc # "none"
    /\ open_future' = NewFuture(callers)
    /\ conn_task' = t
    /\ tasks' = [tasks EXCEPT ![t] = [NoTask EXCEPT !.pc = "connecting"]]
    /\ closer' = [closer EXCEPT !.result = "none"]
    /\ reentered' = (reentered \/ closer.pc = "awaiting"
                               \/ \E u \in ConnTasks : tasks[u].pc \in ConnLive)
    /\ UNCHANGED <<socket, connected_task, message_id, message_futures, closing,
                   sock_state, orphans, callers, close_tasks>>
    /\ UNCHANGED dvars

\* -------------------------------------------------- the connection task
\* connect(self._uri) succeeds with a new socket s: _set_socket, the
\* on_connected task is created, the receive loop is entered
ConnectOpened(t, s) ==
    /\ Runnable(t, "connecting")
    /\ sock_state[s] = "unopened"
    /\ \A u \in SocketIds : u < s => sock_state[u] # "unopened"
    /\ socket' = s
    /\ callers' = SetSocketCallers(callers, open_future, s)
    /\ orphans' = IF connected_task = "running" THEN orphans + 1 ELSE orphans
    /\ \E r \in LoopHead([tasks[t] EXCEPT !.sock = s], closing, s, Busy(t),
                         [sock_state EXCEPT ![s] = "open"], None, "running", callers') :
          Leave(t, r)
    /\ UNCHANGED <<conn_task, message_id, message_futures, closing, closer,
                   close_tasks, reentered>>
    /\ UNCHANGED dvars

\* connect(self._uri) raises (the endpoint is unreachable, the handshake fails)
ConnectFailed(t) ==
    /\ Runnable(t, "connecting")
    /\ \E r \in Fail(tasks[t], sock_state, open_future, connected_task, callers) :
          Leave(t, r)
    /\ UNCHANGED <<socket, conn_task, message_id, message_futures, closing, orphans,
                   callers, closer, close_tasks, reentered>>
    /\ UNCHANGED dvars

\* aioretry's sleep ends: the next attempt begins
SleepDone(t) ==
    /\ Runnable(t, "sleep")
    /\ tasks' = [tasks EXCEPT ![t].pc = "connecting"]
    /\ UNCHANGED <<socket, conn_task, connected_task, message_id, message_futures,
                   open_future, closing, sock_state, orphans, callers, closer,
                   close_tasks, reentered>>
    /\ UNCHANGED dvars

\* Stream._receive: a text frame arrives within the timeout. The server
\* sends events, garbage, and frames with ids it has been sent, answered or not
Receive(t, f) ==
    /\ Runnable(t, "recv")
    /\ sock_state[tasks[t].rsock] = "open"
    /\ f.id < message_id
    /\ UNCHANGED <<socket, conn_task, message_id, closing, orphans, closer,
                   close_tasks, reentered>>
    /\ IF f.kind = "invalid"
       THEN \* json.loads raises ValueError: logged, the frame is dropped
            /\ UNCHANGED <<callers, message_futures>>
            /\ \E r \in LoopHead(tasks[t], closing, socket, Busy(t), sock_state,
                                 open_future, connected_task, callers) : Leave(t, r)
       ELSE IF Forwarded(message_futures, f)
       THEN \* await self._emit(ON_MESSAGE, msg)
            /\ UNCHANGED <<callers, message_futures, sock_state, open_future,
                           connected_task>>
            /\ tasks' = [tasks EXCEPT ![t].pc = "emit", ![t].rsock = None]
       ELSE /\ message_futures' = HandleFutures(message_futures, f)
            /\ callers' = HandleCallers(callers, f)
            /\ \E r \in LoopHead(tasks[t], closing, socket, Busy(t), sock_state,
                                 open_future, connected_task, callers') : Leave(t, r)
    /\ UNCHANGED dvars

\* ReceiveTimeout with the timeout left to propagate out of Stream._connect
ReceiveTimeoutRaises(t) ==
    /\ Runnable(t, "recv")
    /\ sock_state[tasks[t].rsock] = "open"
    /\ \E r \in Fail(tasks[t], sock_state, open_future, connected_task, callers) :
          Leave(t, r)
    /\ UNCHANGED <<socket, conn_task, message_id, message_futures, closing, orphans,
                   callers, closer, close_tasks, reentered>>
    /\ UNCHANGED dvars

\* Stream._receive: asyncio.TimeoutError, then `await self._socket.ping()`.
\* Without a socket handle that is an AttributeError, on a terminated socket
\* ConnectionClosed; otherwise the ping frame is written
ReceiveTimeout(t) ==
    /\ Runnable(t, "recv")
    /\ sock_state[tasks[t].rsock] = "open"
    /\ IF socket = None
       THEN \E r \in Fail(tasks[t], sock_state, open_future, connected_task,
                          callers) : Leave(t, r)
       ELSE IF sock_state[socket] # "open"
       THEN \E r \in Caught(tasks[t], closing, sock_state, open_future,
                            connected_task, callers, FALSE) : Leave(t, r)
       ELSE /\ tasks' = [tasks EXCEPT ![t].pc = "ping", ![t].rsock = socket]
            /\ UNCHANGED <<sock_state, open_future, connected_task>>
    /\ UNCHANGED <<socket, conn_task, message_id, message_futures, closing, orphans,
                   callers, closer, close_tasks, reentered>>
    /\ UNCHANGED dvars

\* `await self._socket.ping()` returns and _receive with it: the loop goes on;
\* on a socket that has terminated meanwhile it raises ConnectionClosed
PingDone(t) ==
    /\ Runnable(t, "ping")
    /\ IF sock_state[tasks[t].rsock] = "open"
       THEN \E r \in LoopHead(tasks[t], closing, socket, Busy(t), sock_state,
                              open_future, connected_task, callers) : Leave(t, r)
       ELSE \E r \in Caught(tasks[t], closing, sock_state, open_future,
                            connected_task, callers, FALSE) : Leave(t, r)
    /\ UNCHANGED <<socket, conn_task, message_id, message_futures, closing, orphans,
                   callers, closer, close_tasks, reentered>>
    /\ UNCHANGED dvars

\* self._socket.recv() raises ConnectionClosed: the socket has terminated
ReceiveClosed(t) ==
    /\ Runnable(t, "recv")
    /\ sock_state[tasks[t].rsock] = "closed"
    /\ \E r \in Caught(tasks[t], closing, sock_state, open_future, connected_task,
                       callers, FALSE) : Leave(t, r)
    /\ UNCHANGED <<socket, conn_task, message_id, message_futures, closing, orphans,
                   callers, closer, close_tasks, reentered>>
    /\ UNCHANGED dvars

\* the on_message callback returns: the loop goes on
EmitDone(t) ==
    /\ Runnable(t, "emit")
    /\ \E r \in LoopHead(tasks[t], closing, socket, Busy(t), sock_state,
                         open_future, connected_task, callers) : Leave(t, r)
    /\ UNCHANGED <<socket, conn_task, message_id, message_futures, closing, orphans,
                   callers, closer, close_tasks, reentered>>
    /\ UNCHANGED dvars

\* Task.cancel() takes effect: CancelledError is thrown into the task at its
\* await, inside the try of Stream._connect or outside it
Cancelled(t) ==
    /\ tasks[t].must_cancel
    /\ tasks[t].pc \in ConnLive
    /\ IF tasks[t].pc \in InLoop
       THEN \E r \in Caught(tasks[t], closing, sock_state, open_future,
                            connected_task, callers, TRUE) : Leave(t, r)
       ELSE Leave(t, Outcome(Finished(tasks[t], "cancelled"), sock_state,
                             open_future, connected_task))
    /\ UNCHANGED <<socket, conn_task, message_id, message_futures, closing, orphans,
                   callers, closer, close_tasks, reentered>>
    /\ UNCHANGED dvars

\* ------------------------------------------------------- the environment
\* The socket terminates: the network fails or the server closes it
SocketDrop(s) ==
    /\ sock_state[s] = "open"
    /\ sock_state' = [sock_state EXCEPT ![s] = "closed"]
    /\ UNCHANGED <<socket, conn_task, connected_task, message_id, message_futures,
                   open_future, closing, tasks, orphans, callers, closer,
                   close_tasks, reentered>>
    /\ UNCHANGED dvars

\* The on_connected callback that self._connected_task runs returns
ConnectedDone ==
    /\ connected_task = "running"
    /\ connected_task' = "done"
    /\ UNCHANGED <<socket, conn_task, message_id, message_futures, open_future,
                   closing, sock_state, tasks, orphans, callers, closer,
                   close_tasks, reentered>>
    /\ UNCHANGED dvars

\* An on_connected callback that no field refers to any more returns
OrphanDone ==
    /\ orphans > 0
    /\ orphans' = orphans - 1
    /\ UNCHANGED <<socket, conn_task, connected_task, message_id, message_futures,
                   open_future, closing, sock_state, tasks, callers, closer,
                   close_tasks, reentered>>
    /\ UNCHANGED dvars


\* ---------------------------------------------------------------- send()
\* NextMessageId without the increment
NextMessageIdStuck(mid) == mid

\* self._message_id += 1
NextMessageId(mid) == mid + 1

\* Stream.send from `future = create_future()` on, with the socket it holds:
\* the id is taken, the future stored, the frame written to the socket.
\* socket.send raises ConnectionClosed on a socket that has terminated.
Write(c, s) ==
    /\ message_id < MaxCallers
    /\ message_id' = NextMessageId(message_id)
    /\ message_futures' = message_futures \cup {message_id}
    /\ callers' = [callers EXCEPT ![c] =
          [@ EXCEPT !.id = message_id, !.sock = None, !.gate = None,
                    !.pc = IF sock_state[s] = "open" THEN "waitResp"
                           ELSE "ConnectionClosed"]]

\* Send without `else: raise StreamDisconnectedException`: the call awaits
\* self._open_future whatever it holds
SendNoRaise(c) ==
    /\ callers[c].pc = "idle"
    /\ \A d \in Callers : d < c => callers[d].pc # "idle"
    /\ IF socket # None
       THEN Write(c, socket)
       ELSE /\ callers' = [callers EXCEPT ![c] =
                  [@ EXCEPT !.pc = "waitOpen", !.gate = open_future]]
            /\ UNCHANGED <<message_id, message_futures>>
    /\ UNCHANGED <<socket, conn_task, connected_task, open_future, closing,
                   sock_state, tasks, orphans, closer, close_tasks, reentered>>
    /\ UNCHANGED dvars

\* Stream.send is called
Send(c) ==
    /\ callers[c].pc = "idle"
    /\ \A d \in Callers : d < c => callers[d].pc # "idle"
    /\ IF socket # None
       THEN Write(c, socket)
       ELSE /\ callers' = [callers EXCEPT ![c] =
                  IF open_future # None
                  THEN [@ EXCEPT !.pc = "waitOpen", !.gate = open_future]
                  ELSE [@ EXCEPT !.pc = "NotConnected"]]
            /\ UNCHANGED <<message_id, message_futures>>
    /\ UNCHANGED <<socket, conn_task, connected_task, open_future, closing,
                   sock_state, tasks, orphans, closer, close_tasks, reentered>>
    /\ UNCHANGED dvars

\* `socket = await self._open_future` returns the published socket
SendResume(c) ==
    /\ callers[c].pc = "woken"
    /\ Write(c, callers[c].sock)
    /\ UNCHANGED <<socket, conn_task, connected_task, open_future, closing,
                   sock_state, tasks, orphans, closer, close_tasks, reentered>>
    /\ UNCHANGED dvars

\* --------------------------------------------------------------- close()
\* Stream.close up to its first await: the flag, the socket.close(code)
\* task if there is a socket, the cancellation of the connection task
CloseStart ==
    /\ closer.pc = "idle"
    /\ IF conn_task = None
       THEN /\ closer' = [closer EXCEPT !.result = "NotConnected"]
            /\ UNCHANGED <<closing, close_tasks, tasks>>
       ELSE /\ closing' = TRUE
            /\ close_tasks' = IF socket # None THEN close_tasks \cup {socket}
                              ELSE close_tasks
            /\ tasks' = [tasks EXCEPT ![conn_task].must_cancel =
                            tasks[conn_task].pc \in ConnLive]
            /\ closer' = [pc |-> "awaiting", target |-> conn_task,
                          sock |-> socket, result |-> "none"]
    /\ UNCHANGED <<socket, conn_task, connected_task, message_id, message_futures,
                   open_future, sock_state, orphans, callers, reentered>>
    /\ UNCHANGED dvars

\* The socket.close(code) task runs
CloseSocket(s) ==
    /\ s \in close_tasks
    /\ close_tasks' = close_tasks \ {s}
    /\ sock_state' = [sock_state EXCEPT ![s] = "closed"]
    /\ UNCHANGED <<socket, conn_task, connected_task, message_id, message_futures,
                   open_future, closing, tasks, orphans, callers, closer, reentered>>
    /\ UNCHANGED dvars

\* CloseFinish without `self._closing = False`
CloseFinishKeepsFlag ==
    /\ closer.pc = "awaiting"
    /\ \/ /\ tasks[closer.target].pc = "cancelled"
          /\ closer' = [pc |-> "idle", target |-> None, sock |-> None,
                        result |-> "CancelledError"]
          /\ UNCHANGED <<socket, closing>>
       \/ /\ tasks[closer.target].pc \in {"done", "failed"}
          /\ closer.sock \notin close_tasks
          /\ closer' = [pc |-> "idle", target |-> None, sock |-> None,
                        result |-> "returned"]
          /\ socket' = None
          /\ UNCHANGED closing
    /\ UNCHANGED <<conn_task, connected_task, message_id, message_futures,
                   open_future, sock_state, tasks, orphans, callers, close_tasks, reentered>>
    /\ UNCHANGED dvars

\* Stream.close after `for coro in asyncio.as_completed(tasks)`: awaiting a
\* cancelled connection task raises CancelledError out of close(); otherwise
\* both tasks are awaited and the fields are reset
CloseFinish ==
    /\ closer.pc = "awaiting"
    /\ \/ /\ tasks[closer.target].pc = "cancelled"
          /\ closer' = [pc |-> "idle", target |-> None, sock |-> None,
                        result |-> "CancelledError"]
          /\ UNCHANGED <<socket, closing>>
       \/ /\ tasks[closer.target].pc \in {"done", "failed"}
          /\ closer.sock \notin close_tasks
          /\ closer' = [pc |-> "idle", target |-> None, sock |-> None,
                        result |-> "returned"]
          /\ socket' = None
          /\ closing' = FALSE
    /\ UNCHANGED <<conn_task, connected_task, message_id, message_futures,
                   open_future, sock_state, tasks, orphans, callers, close_tasks, reentered>>
    /\ UNCHANGED dvars

\* ------------------------------------------------------------------ Next
Next ==
    \/ \E t \in ConnTasks : Connect(t)
    \/ \E t \in ConnTasks, s \in SocketIds : ConnectOpened(t, s)
    \/ \E t \in ConnTasks : ConnectFailed(t)
    \/ \E t \in ConnTasks : SleepDone(t)
    \/ \E t \in ConnTasks, f \in Frames : Receive(t, f)
    \/ \E t \in ConnTasks : ReceiveTimeout(t)
    \/ \E t \in ConnTasks : PingDone(t)
    \/ \E t \in ConnTasks : ReceiveClosed(t)
    \/ \E t \in ConnTasks : EmitDone(t)
    \/ \E t \in ConnTasks : Cancelled(t)
    \/ \E s \in SocketIds : SocketDrop(s)
    \/ ConnectedDone
    \/ OrphanDone
    \/ \E c \in Callers : Send(c)
    \/ \E c \in Callers : SendResume(c)
    \/ CloseStart
    \/ \E s \in SocketIds : CloseSocket(s)
    \/ CloseFinish

Spec == Init /\ [][Next]_vars


\* ---------------------------------------------------------- the processor
\* The handlers registered
Registered == {h \in HandlerIds : handlers[h] # "none"}

\* The orders in which `for handler in self._handlers` may visit a set
Orders(hs) ==
    {o \in [1..Cardinality(hs) -> hs] : \A i, j \in 1..Cardinality(hs) : i # j => o[i] # o[j]}
AllOrders == UNION {Orders(hs) : hs \in SUBSET HandlerIds}

\* ProcessorBase.dispatch, the `for` loop from the i-th handler of the order
\* on, `st` being what has become of each receive(payload) so far: a
\* coroutine function is called, which creates its coroutine; another
\* receive runs there and then, and when it raises the loop is left
RECURSIVE ForLoop(_, _, _)
ForLoop(order, i, st) ==
    IF i > Len(order) THEN [coro |-> st, raised |-> FALSE]
    ELSE LET h == order[i]
         IN  IF IsCoroutine(handlers[h])
             THEN ForLoop(order, i + 1, [st EXCEPT ![h] = "created"])
             ELSE IF Raises(handlers[h])
             THEN [coro |-> [st EXCEPT ![h] = "failed"], raised |-> TRUE]
             ELSE ForLoop(order, i + 1, [st EXCEPT ![h] = "done"])

\* ProcessorBase.add_handler, before the payload arrives
AddHandler(h, k) ==
    /\ dispatch = "idle"
    /\ handlers[h] = "none"
    /\ \A g \in HandlerIds : g < h => handlers[g] # "none"
    /\ handlers' = [handlers EXCEPT ![h] = k]
    /\ UNCHANGED <<coro, dispatch>>
    /\ UNCHANGED svars

\* ProcessorBase.dispatch up to `await asyncio.gather(*coro)`, which makes a
\* task of every coroutine collected; without coroutines dispatch returns
Dispatch(order) ==
    /\ dispatch = "idle"
    /\ order \in Orders(Registered)
    /\ LET r == ForLoop(order, 1, coro)
       IN  IF r.raised
           THEN coro' = r.coro /\ dispatch' = "raised"
           ELSE /\ coro' = [h \in HandlerIds |->
                              IF r.coro[h] = "created" THEN "running" ELSE r.coro[h]]
                /\ dispatch' = IF \E h \in HandlerIds : r.coro[h] = "created"
                               THEN "gather" ELSE "returned"
    /\ UNCHANGED handlers
    /\ UNCHANGED svars

\* The task of an asynchronous receive ends. gather (return_exceptions
\* False) raises the first exception into dispatch and leaves the other
\* tasks running; it returns when all have returned
ReceiveDone(h) ==
    /\ coro[h] = "running"
    /\ coro' = [coro EXCEPT ![h] = IF Raises(handlers[h]) THEN "failed" ELSE "done"]
    /\ dispatch' = IF dispatch # "gather" THEN dispatch
                   ELSE IF Raises(handlers[h]) THEN "raised"
                   ELSE IF \A g \in HandlerIds \ {h} : coro[g] # "running" THEN "returned"
                   ELSE "gather"
    /\ UNCHANGED handlers
    /\ UNCHANGED svars

DispatchNext ==
    \/ \E h \in HandlerIds, k \in HandlerKinds : AddHandler(h, k)
    \/ \E order \in AllOrders : Dispatch(order)
    \/ \E h \in HandlerIds : ReceiveDone(h)

DispatchSpec == Init /\ [][DispatchNext]_vars


\* ======================================================== the properties
Resolved == {"returned", "SubscribeError"}

\* The callers a step takes out of `await future`
ResolvedNow == {c \in Callers : callers[c].pc = "waitResp" /\ callers'[c].pc # "waitResp"}

\* C1: a caller leaves `await future` only through a frame that carries the
\* id stamped on its own request, with that frame's result or error; a frame
\* resolves at most one caller, and it consumes the table entry, so that a
\* second frame with the same id resolves nobody
C1_Correlation ==
    [][ /\ Cardinality(ResolvedNow) <= 1
        /\ \A c \in ResolvedNow :
              /\ callers'[c].pc \in Resolved
              /\ callers'[c].frame = callers[c].id
              /\ callers[c].id \in message_futures
              /\ callers[c].id \notin message_futures'
              /\ \E t \in ConnTasks, f \in Frames :
                    /\ Receive(t, f)
                    /\ f.id = callers[c].id
                    /\ f.val = callers'[c].val
                    /\ (f.kind = "result") <=> (callers'[c].pc = "returned")
                    /\ (f.kind = "error") <=> (callers'[c].pc = "SubscribeError")
      ]_vars

\* C1 witness: two requests outstanding together, the later one answered first
C1_Witness ==
    \E c, d \in Callers :
        /\ callers[c].pc = "waitResp"
        /\ callers[d].pc = "returned"
        /\ callers[d].val = "data"
        /\ callers[c].id = 0
        /\ callers[d].id = 1

\* C2: the ids given to send() calls are pairwise different and below the
\* counter, the counter never decreases, and an id is given only as the
\* current value of the counter, which then grows: a drop, a reconnection or
\* close() and connect() never reset it
C2_FreshIds ==
    /\ [](\A c, d \in Callers :
            /\ callers[c].id # NoId => callers[c].id < message_id
            /\ (c # d /\ callers[c].id # NoId) => callers[c].id # callers[d].id)
    /\ [][ /\ message_id' >= message_id
           /\ \A c \in Callers :
                 callers'[c].id # callers[c].id =>
                     /\ callers[c].id = NoId
                     /\ callers'[c].id = message_id
                     /\ message_id' > message_id ]_vars

\* C2 witness: an id given on the first connection and the next id given
\* after close() and connect(), on the second connection
C2_Witness ==
    /\ ~reentered
    /\ tasks[1].pc = "done"
    /\ tasks[2].pc = "recv"
    /\ sock_state[1] = "closed"
    /\ sock_state[2] = "open"
    /\ callers[1].id = 0
    /\ callers[1].pc = "returned"
    /\ callers[2].id = 1
    /\ callers[2].pc = "waitResp"

NeverConnected == \A t \in ConnTasks : tasks[t].pc = "none"

\* C3: before any connect(), send() and close() raise
\* StreamDisconnectedException at once and change nothing else: no id is
\* taken, no future stored, the closing flag stays false
C3_NeverConnected ==
    [][ NeverConnected =>
          /\ \A c \in Callers : Send(c) =>
                /\ callers'[c].pc = "NotConnected"
                /\ callers'[c].id = NoId
          /\ CloseStart =>
                /\ closer'.pc = "idle"
                /\ closer'.result = "NotConnected"
          /\ (CloseStart \/ \E c \in Callers : Send(c)) =>
                /\ message_id' = message_id
                /\ message_futures' = message_futures
                /\ closing' = FALSE
                /\ UNCHANGED <<socket, conn_task, open_future, tasks>>
      ]_vars

\* C3 witness: both calls have failed on a connection never connected
C3_Witness ==
    /\ NeverConnected
    /\ callers[1].pc = "NotConnected"
    /\ closer.result = "NotConnected"
    /\ message_id = 0

\* The connection is Open: a connection task is in its receive loop on the
\* open socket that self._socket refers to
ConnOpen ==
    /\ socket # None
    /\ sock_state[socket] = "open"
    /\ \E t \in ConnTasks : tasks[t].pc \in InLoop /\ tasks[t].sock = socket

\* C4 (as claimed, for one connect() call): once the connection is Open no
\* send() is still waiting for the socket to open
C4_NoneLeftWaiting ==
    (ConnOpen /\ tasks[2].pc = "none") => \A c \in Callers : callers[c].pc # "waitOpen"

\* An outage: the socket self._socket refers to has terminated and the
\* connection task is alive, not yet connected again
Outage ==
    /\ ~reentered
    /\ ~closing
    /\ closer.result = "none"
    /\ socket # None
    /\ sock_state[socket] = "closed"
    /\ conn_task # None
    /\ tasks[conn_task].pc \in {"recv", "sleep", "connecting"}

\* C5 (as claimed): a send() issued during an outage does not fail and takes
\* no id yet: it waits for the socket to open
C5_SendInOutageWaits ==
    [][ \A c \in Callers : (Outage /\ Send(c)) => callers'[c].pc = "waitOpen" ]_vars

\* close() has returned and connect() has not been called since
TornDown == closer.pc = "idle" /\ closer.result = "returned"

\* C6 (as claimed): after close() has returned, send() raises
\* StreamDisconnectedException at once
C6_SendAfterClose ==
    [][ \A c \in Callers :
          (TornDown /\ ~reentered /\ Send(c)) => callers'[c].pc = "NotConnected" ]_vars

\* C7 (as claimed): a second close() after the teardown raises
\* StreamDisconnectedException
C7_SecondClose ==
    [][ (TornDown /\ ~reentered /\ CloseStart) =>
            (closer'.pc = "idle" /\ closer'.result = "NotConnected") ]_vars

\* C9 (as claimed): no id of a send() call that has ended is still a key of
\* the table
C9_NoFinishedPending ==
    \A c \in Callers :
        (callers[c].pc \in CallerFinished /\ callers[c].id # NoId)
            => callers[c].id \notin message_futures

\* The on_connected callbacks running
RunningConnected == orphans + (IF connected_task = "running" THEN 1 ELSE 0)

\* C10 (as claimed, connect() never called on a live connection): at most one
\* on_connected callback runs at a time
C10_OneConnectedTask == ~reentered => RunningConnected <= 1


\* ------------------------------------------------------------- fairness
\* The event loop runs every task that is ready, and timers expire: the
\* steps below are taken once they stay possible. Nothing makes the user
\* call, the server answer, the network fail or a callback return.
Scheduled ==
    \/ \E t \in ConnTasks : SleepDone(t) \/ PingDone(t) \/ ReceiveClosed(t) \/ Cancelled(t)
    \/ \E c \in Callers : SendResume(c)
    \/ \E s \in SocketIds : CloseSocket(s)
    \/ CloseFinish

FairSpec == Spec /\ WF_vars(Scheduled)

\* The connection is torn down: its task has ended and no close() is running
Teardown ==
    /\ conn_task # None
    /\ tasks[conn_task].pc \in ConnFinished
    /\ closer.pc = "idle"

\* C8 (as claimed): a send() suspended on its response when the connection
\* is torn down, by close() or by the retry policy, eventually returns
C8_PendingReturns ==
    \A c \in Callers :
        (callers[c].pc = "waitResp" /\ Teardown) ~> (callers[c].pc \in CallerFinished)

\* ------------------------------------------------- termination and connect()
\* C11 (as claimed): when recv() reports the socket terminated, the connection
\* task returns if the closing flag is set, and otherwise it goes on to a new
\* attempt (aioretry's sleep, then connect) unless the retry policy stops it
C11_TerminationClassified ==
    [][ \A t \in ConnTasks :
          ReceiveClosed(t) =>
              IF closing THEN tasks'[t].pc = "done"
              ELSE tasks'[t].pc \in {"sleep", "failed"} ]_vars

\* The connection tasks alive
LiveTasks == {t \in ConnTasks : tasks[t].pc \in ConnLive}

\* C12 (as claimed): connect() on a connection whose task is alive starts no
\* second task: at most one connection task is alive and at most one socket
\* is open
C12_OneConnection ==
    /\ Cardinality(LiveTasks) <= 1
    /\ Cardinality({s \in SocketIds : sock_state[s] = "open"}) <= 1

\* ------------------------------------------------------ close(), connect()
\* The connection is Open again: close() has returned on an earlier
\* connection task, connect() was called after that, and the new task is in
\* its receive loop on an open socket
Reopened ==
    /\ ~reentered
    /\ closer.pc = "idle"
    /\ closer.result = "none"
    /\ conn_task # None
    /\ tasks[conn_task].pc \in InLoop
    /\ sock_state[tasks[conn_task].sock] = "open"
    /\ \E u \in ConnTasks \ {conn_task} : tasks[u].pc = "done"

\* C13: once close() has returned there is no socket handle, the closing flag
\* is false and the connection task has ended; on the connection opened by a
\* following connect() the handle is the new socket, a send() is written to
\* it under a fresh table entry, and the result frame with its id makes it
\* return that result
C13_CloseThenConnect ==
    /\ []((TornDown /\ ~reentered) =>
            /\ socket = None
            /\ ~closing
            /\ conn_task # None
            /\ tasks[conn_task].pc \in ConnFinished)
    /\ [](Reopened => (socket = tasks[conn_task].sock /\ ~closing))
    /\ [][ Reopened =>
            /\ \A c \in Callers : Send(c) =>
                  /\ callers'[c].pc = "waitResp"
                  /\ callers'[c].id \in message_futures'
            /\ \A c \in Callers, f \in Frames :
                  ( /\ callers[c].pc = "waitResp"
                    /\ callers[c].id \in message_futures
                    /\ f.kind = "result"
                    /\ f.id = callers[c].id
                    /\ Receive(conn_task, f) ) =>
                        /\ callers'[c].pc = "returned"
                        /\ callers'[c].val = f.val ]_vars

\* C13 witness: after close() and connect() a send() made while connecting
\* holds the new socket, and a later send() has been written and answered
C13_Witness ==
    /\ Reopened
    /\ socket = 2
    /\ callers[1].pc = "woken"
    /\ callers[1].sock = 2
    /\ callers[2].pc = "returned"
    /\ callers[2].val = "data"

\* ---------------------------------------------------------- inbound frames
\* C14: a frame whose id is a key of the table and which has neither a result
\* nor an error completes no send() call and leaves every caller as it was,
\* and the connection task goes on to its next recv()
C14_BareFrameResolvesNobody ==
    [][ \A t \in ConnTasks : Runnable(t, "recv") => \A f \in Frames :
          (f.kind = "bare" /\ f.id \in message_futures /\ Receive(t, f)) =>
              /\ callers' = callers
              /\ ~reentered => tasks'[t].pc = "recv" ]_vars

\* C14 witness: a call still awaits its response after a frame with its id
\* and neither key has been handled, and the receive loop goes on
C14_Witness ==
    /\ ~reentered
    /\ tasks[1].pc = "recv"
    /\ callers[1].pc = "waitResp"
    /\ callers[1].id = 0
    /\ 0 \notin message_futures

\* A frame _handle_message hands to on_message; a frame it correlates
ToForward(f) == f.kind # "invalid" /\ (f.id = NoId \/ f.id \notin message_futures)
ToCorrelate(f) == f.kind \in {"result", "error"} /\ f.id \in message_futures

\* C15: a JSON frame without an id, or with an id that is no key of the
\* table, is handed to on_message (once: the task awaits that one call) and
\* leaves the table and every caller as they were; a frame with a result or
\* an error whose id is a key of the table is not handed to on_message.
\* Stated by the steps of a task in recv(): one that hands a frame over
\* changes neither table nor callers and is the receipt of no correlated
\* frame; one that hands nothing over is the receipt of no frame to forward
C15_Forwarding ==
    [][ \A t \in ConnTasks :
          /\ (tasks[t].pc = "recv" /\ tasks'[t].pc = "emit") =>
                /\ message_futures' = message_futures
                /\ callers' = callers
                /\ \A f \in Frames : ToCorrelate(f) => ~Receive(t, f)
          /\ (Runnable(t, "recv") /\ tasks'[t].pc # "emit") =>
                \A f \in Frames : ToForward(f) => ~Receive(t, f) ]_vars

\* C15 witness: a frame is with on_message while a request is pending
C15_Witness ==
    /\ tasks[1].pc = "emit"
    /\ callers[1].pc = "waitResp"
    /\ callers[1].id \in message_futures

\* C16: an error frame whose id is a key of the table makes the send() call
\* awaiting that id raise StreamSubscribeException with the frame's code and
\* message, deletes that key and no other, and leaves every other caller as
\* it was
C16_ErrorFrame ==
    [][ \A t \in ConnTasks : Runnable(t, "recv") => \A f \in Frames :
          (f.kind = "error" /\ f.id \in message_futures /\ Receive(t, f)) =>
              /\ message_futures' = message_futures \ {f.id}
              /\ \A c \in Callers :
                    IF callers[c].id = f.id /\ callers[c].pc = "waitResp"
                    THEN /\ callers'[c].pc = "SubscribeError"
                         /\ callers'[c].frame = f.id
                         /\ callers'[c].val = f.val
                    ELSE callers'[c] = callers[c] ]_vars

\* C16 witness: of two pending requests the first has failed with the error
\* of its frame and the second is still pending
C16_Witness ==
    /\ callers[1].pc = "SubscribeError"
    /\ callers[1].val = "data"
    /\ callers[1].id \notin message_futures
    /\ callers[2].pc = "waitResp"
    /\ callers[2].id \in message_futures

\* C19: when the receive wait expires on the open socket of the connection,
\* the ping is written on that socket and, once written, the connection task
\* is back in recv() on it: no retry, the failure count as before, the socket
\* open, the table and every caller as they were
C19_KeepalivePing ==
    [][ \A t \in ConnTasks :
          (~reentered /\ socket # None /\ sock_state[socket] = "open") =>
              /\ ReceiveTimeout(t) =>
                    /\ tasks' = [tasks EXCEPT ![t].pc = "ping"]
                    /\ tasks[t].rsock = socket
              /\ PingDone(t) =>
                    tasks' = [tasks EXCEPT ![t].pc = "recv"]
              /\ (ReceiveTimeout(t) \/ PingDone(t)) =>
                    /\ sock_state' = sock_state
                    /\ message_futures' = message_futures
                    /\ callers' = callers
                    /\ UNCHANGED <<socket, open_future, closing, connected_task>> ]_vars

\* C19 witness: the ping is being written on the open socket of a connection
\* that had failed once before it opened, with a request pending
C19_Witness ==
    /\ ~reentered
    /\ tasks[1].pc = "ping"
    /\ tasks[1].fails = 1
    /\ tasks[1].rsock = socket
    /\ sock_state[socket] = "open"
    /\ callers[1].pc = "waitResp"
    /\ callers[1].id \in message_futures

\* ------------------------------------------------------ the failure count
\* C18 (as claimed): a connection that has opened counts as a success, so
\* the failure that ends an open connection is the first since that success:
\* the policy is asked about 1 failure
C18_CountResetOnOpen ==
    [][ \A t \in ConnTasks :
          (tasks[t].pc \in InLoop /\ tasks'[t].pc \in {"sleep", "failed"})
              => tasks'[t].fails = 1 ]_vars

\* C20 (as claimed): the id of every send() call awaiting its response is a
\* key of the table
C20_WaitingIsPending ==
    \A c \in Callers : callers[c].pc = "waitResp" => callers[c].id \in message_futures

\* ---------------------------------------------------------------- dispatch
\* The dispatch call has ended and no receive(payload) is still running
DispatchOver ==
    /\ dispatch \in {"returned", "raised"}
    /\ \A h \in HandlerIds : coro[h] # "running"

\* C17 (as claimed): once dispatch is over, the receive of every registered
\* handler has been called and has run to its end, whether or not another
\* one raised
C17_EveryHandlerRuns ==
    DispatchOver => \A h \in Registered : coro[h] \in {"done", "failed"}

=============================================================================
